---- MODULE Spec2Model ----
(***************************************************************************)
(* Model of server.py: four FastAPI handlers (read_csv, describe, plot,    *)
(* analyze) over pandas / matplotlib.                                      *)
(*                                                                         *)
(* Abstractions.  A column is its inferred dtype and its length (columns   *)
(* are non-empty); a message is a sequence of text fragments, so that      *)
(* "the message mentions t" is "t is one of its fragments"; a figure is    *)
(* the set of draw calls made on it plus its title; pyplot's global state  *)
(* is the ordered list of open figures, the last one being current.        *)
(* Library behaviour is that of pandas 2.x (DataFrame.corr has             *)
(* numeric_only=False) and of Starlette >= 0.28 (HTTPException.__str__     *)
(* is "<status_code>: <detail>").                                          *)
(***************************************************************************)
EXTENDS Integers, Sequences, FiniteSets, TLC

VARIABLES figs, pending, nreq, last

vars == <<figs, pending, nreq, last>>

(* ---------------------------------------------------------------- bounds *)
MaxRows == 2
MaxCols == 2
MaxRequests == 3

(* ------------------------------------------------------------ input sets *)
None == "<None>"

ColOrder == <<"a", "b">>
ColNames == {ColOrder[i] : i \in 1..Len(ColOrder)}
Dtypes == {"int64", "object"}
ColumnSpecs == [dtype : Dtypes, len : 1..MaxRows]
Datasets == UNION {[S -> ColumnSpecs] : S \in SUBSET ColNames}
Kinds == {"line", "scatter", "histogram", "heatmap", "pie", "bar"}
Selectors == {None} \cup ColNames
Titles == {None, "t"}
ColumnLists == UNION {[1..n -> ColNames] : n \in 0..MaxCols}
ColumnsParams == {[given |-> FALSE, list |-> <<>>]}
                   \cup {[given |-> TRUE, list |-> l] : l \in ColumnLists}
CsvFiles == {[utf8 |-> FALSE, shape |-> "ok"],
             [utf8 |-> TRUE, shape |-> "ok"],
             [utf8 |-> TRUE, shape |-> "empty"],
             [utf8 |-> TRUE, shape |-> "ragged"]}

NoData == [c \in {} |-> [dtype |-> "object", len |-> 1]]
NoColumns == [given |-> FALSE, list |-> <<>>]
NoFile == [utf8 |-> TRUE, shape |-> "none"]

Range(s) == {s[i] : i \in 1..Len(s)}
Mentions(msg, t) == t \in Range(msg)

(* ------------------------------------------------------------ exceptions *)
ExceptionSubclasses == {"ValueError", "KeyError", "TypeError", "UnicodeDecodeError",
                        "ParserError", "EmptyDataError", "HTTPException"}

HTTPException(status_code, detail) ==
    [type |-> "HTTPException", status_code |-> status_code, detail |-> detail]

PyException(type, msg) == [type |-> type, status_code |-> 0, detail |-> msg]

NoException == [type |-> "none", status_code |-> 0, detail |-> <<>>]

\* str(e)
Str(e) ==
    CASE e.type = "HTTPException" -> <<ToString(e.status_code), ": ">> \o e.detail
      [] e.type = "KeyError" -> <<"'">> \o e.detail \o <<"'">>
      [] OTHER -> e.detail

NoValue == [kind |-> "none"]
Return(v) == [ok |-> TRUE, exc |-> NoException, value |-> v]
Raise(e) == [ok |-> FALSE, exc |-> e, value |-> NoValue]

\* mutant: the handler catches ValueError only
CatchesOnlyValueError(e) == e.type = "ValueError"

\* except Exception as e
Catches(e) == e.type \in ExceptionSubclasses

\* try: ... return JSONResponse(content=...) except Exception as e: raise HTTPException(400, str(e))
Handle(r) ==
    IF r.ok THEN [status_code |-> 200, detail |-> <<>>, content |-> r.value]
    ELSE IF Catches(r.exc)
         THEN [status_code |-> 400, detail |-> Str(r.exc), content |-> NoValue]
         ELSE [status_code |-> 500, detail |-> <<"Internal Server Error">>,
               content |-> NoValue]

(* ---------------------------------------------------------------- pandas *)
IsNumeric(dtype) == dtype \in {"int64", "float64"}

ColSeq(S) == SelectSeq(ColOrder, LAMBDA c : c \in S)

\* pd.DataFrame(data)
DataFrame(data) ==
    IF \E c1, c2 \in DOMAIN data : data[c1].len # data[c2].len
    THEN Raise(PyException("ValueError", <<"All arrays must be of the same length">>))
    ELSE Return([kind |-> "frame",
                 columns |-> ColSeq(DOMAIN data),
                 dtypes |-> [c \in DOMAIN data |-> data[c].dtype],
                 nrows |-> IF DOMAIN data = {} THEN 0
                           ELSE (CHOOSE n \in 0..(MaxRows + 1) :
                                    \A c \in DOMAIN data : data[c].len = n)])

Frame(df, columns) == [df EXCEPT !.columns = columns]

NumericColumns(df) == SelectSeq(df.columns, LAMBDA c : IsNumeric(df.dtypes[c]))

\* df[columns] with a list of labels
GetItemList(df, columns) ==
    IF \E i \in 1..Len(columns) : columns[i] \notin Range(df.columns)
    THEN Raise(PyException("KeyError", <<"not in index">>))
    ELSE Return(Frame(df, columns))

\* df[x] with one label
GetItem(df, x) ==
    IF x \notin Range(df.columns)
    THEN Raise(PyException("KeyError", <<x>>))
    ELSE Return([kind |-> "series", name |-> x, dtype |-> df.dtypes[x]])

\* df.select_dtypes(include=[np.number])
SelectDtypesNumber(df) == Frame(df, NumericColumns(df))

NumericStats == {"count", "mean", "std", "min", "25%", "50%", "75%", "max"}
ObjectStats == {"count", "unique", "top", "freq"}

\* df.describe(): the numeric columns, or every column when none is numeric
Describe(df) ==
    IF df.columns = <<>>
    THEN Raise(PyException("ValueError", <<"Cannot describe a DataFrame without columns">>))
    ELSE IF NumericColumns(df) # <<>>
         THEN Return([kind |-> "table", columns |-> NumericColumns(df),
                      index |-> NumericStats])
         ELSE Return([kind |-> "table", columns |-> df.columns, index |-> ObjectStats])

\* df.corr() (numeric_only=False): every column is converted to float
Corr(df) ==
    IF \E c \in Range(df.columns) : ~IsNumeric(df.dtypes[c])
    THEN Raise(PyException("ValueError", <<"could not convert string to float">>))
    ELSE Return([kind |-> "table", columns |-> df.columns, index |-> Range(df.columns)])

\* json.loads(table.to_json()): orient="columns" needs unique column labels
ToJson(table) ==
    IF Cardinality(Range(table.columns)) # Len(table.columns)
    THEN Raise(PyException("ValueError",
                           <<"DataFrame columns must be unique for orient='columns'.">>))
    ELSE Return([kind |-> "object", keys |-> Range(table.columns), rows |-> table.index])

\* df.dtypes.astype(str).to_dict()
DtypesToDict(df) == [c \in Range(df.columns) |-> df.dtypes[c]]

\* df.count().to_dict()
CountToDict(df) == [c \in Range(df.columns) |-> df.nrows]

(* ---------------------------------------------------------------- pyplot *)
Max(S) == CHOOSE m \in S : \A n \in S : n <= m

NextNum(fs) == IF fs = <<>> THEN 1 ELSE Max({fs[i].num : i \in 1..Len(fs)}) + 1

\* mutant: the handler draws on the current figure when one is open
PltFigureReuses(fs, rid) ==
    IF fs = <<>>
    THEN <<[num |-> 1, owner |-> rid, artists |-> {}, title |-> None]>>
    ELSE fs

\* plt.figure(figsize=(10, 6)): a new figure, which becomes the current one
PltFigure(fs, rid) ==
    Append(fs, [num |-> NextNum(fs), owner |-> rid, artists |-> {}, title |-> None])

\* plt.gcf(): the current figure, created when none is open
EnsureFigure(fs, rid) == IF fs = <<>> THEN PltFigure(fs, rid) ELSE fs

Gcf(fs) == fs[Len(fs)]

\* a draw call on the current axes
DrawOnGcf(fs, rid, artist) ==
    LET f == EnsureFigure(fs, rid) IN [f EXCEPT ![Len(f)].artists = @ \cup {artist}]

\* plt.title(title)
PltTitle(fs, rid, title) ==
    LET f == EnsureFigure(fs, rid) IN [f EXCEPT ![Len(f)].title = title]

\* plt.savefig(buffer, format='png', bbox_inches='tight'); buffer.getvalue()
PltSavefig(fs, rid) ==
    LET f == EnsureFigure(fs, rid)
    IN  [kind |-> "png", artists |-> Gcf(f).artists, title |-> Gcf(f).title]

\* plt.close(): closes the current figure
PltClose(fs) == IF fs = <<>> THEN fs ELSE SubSeq(fs, 1, Len(fs) - 1)

\* base64.b64encode(png).decode()
B64Encode(png) == [kind |-> "base64", of |-> png]

Artist(call, x, y, cols) == [call |-> call, x |-> x, y |-> y, cols |-> cols]

Drawn(fs) == [figs |-> fs, res |-> Return(NoValue)]
Failed(fs, e) == [figs |-> fs, res |-> Raise(e)]

\* df.plot(kind="line", x=x, y=y): pandas opens a figure of its own for a DataFrame
DfPlotLine(fs, rid, df, x, y) ==
    LET indexed == IF x = None THEN df.columns
                   ELSE SelectSeq(df.columns, LAMBDA c : c # x)
        chosen == IF y = None THEN indexed ELSE <<y>>
        numeric == SelectSeq(chosen, LAMBDA c : IsNumeric(df.dtypes[c]))
    IN  IF x # None /\ x \notin Range(df.columns)
        THEN Failed(fs, PyException("KeyError", <<"None of ", x, " are in the columns">>))
        ELSE IF y # None /\ y \notin Range(indexed)
        THEN Failed(fs, PyException("KeyError", <<y>>))
        ELSE IF numeric = <<>>
        THEN Failed(fs, PyException("TypeError", <<"no numeric data to plot">>))
        ELSE Drawn(DrawOnGcf(PltFigure(fs, rid), rid,
                             Artist("DataFrame.plot", x, y, Range(numeric))))

(* ----------------------------------------------------------------- /plot *)
\* mutant: the whole table is plotted only when both selectors are omitted
LineBothOmitted(fs, rid, df, x, y) ==
    IF x = None /\ y = None
    THEN DfPlotLine(fs, rid, df, None, None)
    ELSE DfPlotLine(fs, rid, df, x, y)

\* kind == "line"
Line(fs, rid, df, x, y) ==
    IF x = None \/ y = None
    THEN DfPlotLine(fs, rid, df, None, None)
    ELSE DfPlotLine(fs, rid, df, x, y)

\* mutant: scatter is refused only when both selectors are missing
ScatterBothMissing(fs, rid, df, x, y) ==
    IF x = None /\ y = None
    THEN Failed(fs, HTTPException(400, <<"x and y", " are required for scatter plots">>))
    ELSE IF ~GetItem(df, x).ok THEN Failed(fs, GetItem(df, x).exc)
    ELSE IF ~GetItem(df, y).ok THEN Failed(fs, GetItem(df, y).exc)
    ELSE Drawn(DrawOnGcf(fs, rid, Artist("plt.scatter", x, y, {})))

\* kind == "scatter"
Scatter(fs, rid, df, x, y) ==
    IF x = None \/ y = None
    THEN Failed(fs, HTTPException(400, <<"x and y", " are required for scatter plots">>))
    ELSE IF ~GetItem(df, x).ok THEN Failed(fs, GetItem(df, x).exc)
    ELSE IF ~GetItem(df, y).ok THEN Failed(fs, GetItem(df, y).exc)
    ELSE Drawn(DrawOnGcf(fs, rid, Artist("plt.scatter", x, y, {})))

\* mutant: histogram requires y as well as x
HistogramNeedsY(fs, rid, df, x, y) ==
    IF x = None \/ y = None
    THEN Failed(fs, HTTPException(400, <<"x is required for histograms">>))
    ELSE IF ~GetItem(df, x).ok THEN Failed(fs, GetItem(df, x).exc)
    ELSE Drawn(DrawOnGcf(fs, rid, Artist("Series.hist", x, None, {})))

\* kind == "histogram"
Histogram(fs, rid, df, x, y) ==
    IF x = None
    THEN Failed(fs, HTTPException(400, <<"x is required for histograms">>))
    ELSE IF ~GetItem(df, x).ok THEN Failed(fs, GetItem(df, x).exc)
    ELSE Drawn(DrawOnGcf(fs, rid, Artist("Series.hist", x, None, {})))

\* sns.heatmap(corr, annot=True, cmap='coolwarm')
SnsHeatmap(fs, rid, corr) ==
    IF corr.columns = <<>>
    THEN Failed(fs, PyException("ValueError", <<"zero-size array to reduction operation">>))
    ELSE Drawn(DrawOnGcf(fs, rid, Artist("sns.heatmap", None, None, Range(corr.columns))))

\* kind == "heatmap"
Heatmap(fs, rid, df, x, y) ==
    IF ~Corr(df).ok THEN Failed(fs, Corr(df).exc)
    ELSE SnsHeatmap(fs, rid, Corr(df).value)

\* mutant: the message does not interpolate the kind
UnsupportedUnnamed(fs, kind) ==
    Failed(fs, HTTPException(400, <<"Unsupported plot type">>))

\* any other kind
Unsupported(fs, kind) ==
    Failed(fs, HTTPException(400, <<"Unsupported plot type: ", kind>>))

\* if title:
Truthy(title) == title # None /\ title # ""

\* the body of plot's try block, on pyplot's figure list fs
PlotBody(fs, rid, req) ==
    LET built == DataFrame(req.data) IN
    IF ~built.ok THEN [figs |-> fs, res |-> built, touched |-> {}]
    ELSE
    LET df == built.value
        f1 == PltFigure(fs, rid)
        drawn == CASE req.kind = "line" -> Line(f1, rid, df, req.x, req.y)
                   [] req.kind = "scatter" -> Scatter(f1, rid, df, req.x, req.y)
                   [] req.kind = "histogram" -> Histogram(f1, rid, df, req.x, req.y)
                   [] req.kind = "heatmap" -> Heatmap(f1, rid, df, req.x, req.y)
                   [] OTHER -> Unsupported(f1, req.kind)
    IN  IF ~drawn.res.ok
        THEN [figs |-> drawn.figs, res |-> drawn.res, touched |-> {}]
        ELSE
        LET f2 == IF Truthy(req.title) THEN PltTitle(drawn.figs, rid, req.title)
                  ELSE drawn.figs
            png == PltSavefig(f2, rid)
            f3 == PltClose(f2)
        IN  [figs |-> f3,
             res |-> Return([kind |-> "plot", plot |-> B64Encode(png)]),
             touched |-> {Gcf(drawn.figs).owner, Gcf(f2).owner}]

(* ------------------------------------------------------------- /describe *)
DescribeBody(req) ==
    LET built == DataFrame(req.data) IN
    IF ~built.ok THEN built
    ELSE IF ~Describe(built.value).ok THEN Describe(built.value)
    ELSE IF ~ToJson(Describe(built.value).value).ok
         THEN ToJson(Describe(built.value).value)
    ELSE Return([kind |-> "describe",
                 statistics |-> ToJson(Describe(built.value).value).value,
                 dtypes |-> DtypesToDict(built.value)])

(* -------------------------------------------------------------- /analyze *)
\* mutant: `if columns is not None:`
ColumnsNotNone(columns) == columns.given

\* if columns:
ColumnsGiven(columns) == columns.given /\ columns.list # <<>>

\* mutant: the columns parameter is not applied
RestrictIgnored(data, columns) == DataFrame(data)

\* df = pd.DataFrame(data); if columns: df = df[columns]
Restrict(data, columns) ==
    LET built == DataFrame(data) IN
    IF ~built.ok THEN built
    ELSE IF ColumnsGiven(columns) THEN GetItemList(built.value, columns.list)
    ELSE built

AnalyzeBody(req) ==
    LET sel == Restrict(req.data, req.columns) IN
    IF ~sel.ok THEN sel
    ELSE
    LET df == sel.value
        description == Describe(df)
        correlation == Corr(SelectDtypesNumber(df))
        info == [dtypes |-> DtypesToDict(df), non_null_counts |-> CountToDict(df)]
    IN  IF ~description.ok THEN description
        ELSE IF ~correlation.ok THEN correlation
        ELSE IF ~ToJson(description.value).ok THEN ToJson(description.value)
        ELSE IF ~ToJson(correlation.value).ok THEN ToJson(correlation.value)
        ELSE Return([kind |-> "analysis",
                     description |-> ToJson(description.value).value,
                     correlation |-> ToJson(correlation.value).value,
                     info |-> info])

(* ------------------------------------------------------------- /read_csv *)
\* content.decode('utf-8')
Decode(file) ==
    IF file.utf8 THEN Return([kind |-> "text", shape |-> file.shape])
    ELSE Raise(PyException("UnicodeDecodeError", <<"'utf-8' codec can't decode byte">>))

\* pd.read_csv(io.StringIO(text))
PdReadCsv(text) ==
    CASE text.shape = "empty" ->
           Raise(PyException("EmptyDataError", <<"No columns to parse from file">>))
      [] text.shape = "ragged" ->
           Raise(PyException("ParserError", <<"Error tokenizing data. C error: Expected ",
                                               "fields in line ", ", saw ">>))
      [] OTHER -> Return([kind |-> "frame", columns |-> ColOrder,
                          dtypes |-> [c \in ColNames |-> "int64"], nrows |-> 1])

ReadCsvBody(file) ==
    IF ~Decode(file).ok THEN Decode(file)
    ELSE IF ~PdReadCsv(Decode(file).value).ok THEN PdReadCsv(Decode(file).value)
    ELSE LET df == PdReadCsv(Decode(file).value).value
         IN  Return([kind |-> "csv", ncolumns |-> df.columns,
                     shape |-> <<df.nrows, Len(df.columns)>>])

(* ------------------------------------------------------------- the state *)
\* figs:    pyplot's open figures, in creation order; the last is current
\* pending: the read_csv requests suspended at `await file.read()`
\* nreq:    the number of requests accepted so far
\* last:    the request whose handler has just ended and whose response the
\*          server is sending: the request, the response, the exception its
\*          body raised and the owners of the figures it drew on, saved or
\*          closed; Idle when no response is being sent
NoRequest == [handler |-> "none", data |-> NoData, kind |-> None, x |-> None,
              y |-> None, title |-> None, columns |-> NoColumns, file |-> NoFile]

Completed(rid, req, r, touched) ==
    [rid |-> rid, req |-> req, resp |-> Handle(r), exc |-> r.exc, touched |-> touched]

Idle == [rid |-> 0, req |-> NoRequest,
         resp |-> [status_code |-> 0, detail |-> <<>>, content |-> NoValue],
         exc |-> NoException, touched |-> {}]

Init ==
    /\ figs = <<>>
    /\ pending = {}
    /\ nreq = 0
    /\ last = Idle

\* read_csv up to `content = await file.read()`, where the coroutine suspends
ReadCsvAwait ==
    /\ last = Idle
    /\ nreq < MaxRequests
    /\ \E file \in CsvFiles :
          pending' = pending \cup {[rid |-> nreq + 1, file |-> file]}
    /\ nreq' = nreq + 1
    /\ UNCHANGED <<figs, last>>

\* read_csv resumed with the file's content, to its response
ReadCsvResume ==
    /\ last = Idle
    /\ \E p \in pending :
          /\ pending' = pending \ {p}
          /\ last' = Completed(p.rid, [NoRequest EXCEPT !.handler = "read_csv",
                                                        !.file = p.file],
                               ReadCsvBody(p.file), {})
    /\ UNCHANGED <<figs, nreq>>

\* describe has no await: it runs to its response in one step
DescribeRequest ==
    /\ last = Idle
    /\ nreq < MaxRequests
    /\ \E data \in Datasets :
          LET req == [NoRequest EXCEPT !.handler = "describe", !.data = data]
          IN  last' = Completed(nreq + 1, req, DescribeBody(req), {})
    /\ nreq' = nreq + 1
    /\ UNCHANGED <<figs, pending>>

\* plot has no await: it runs to its response in one step
PlotRequest ==
    /\ last = Idle
    /\ nreq < MaxRequests
    /\ \E data \in Datasets, kind \in Kinds, x \in Selectors, y \in Selectors,
          title \in Titles :
          LET req == [NoRequest EXCEPT !.handler = "plot", !.data = data,
                                       !.kind = kind, !.x = x, !.y = y, !.title = title]
              out == PlotBody(figs, nreq + 1, req)
          IN  /\ figs' = out.figs
              /\ last' = Completed(nreq + 1, req, out.res, out.touched)
    /\ nreq' = nreq + 1
    /\ UNCHANGED pending

\* analyze has no await: it runs to its response in one step
AnalyzeRequest ==
    /\ last = Idle
    /\ nreq < MaxRequests
    /\ \E data \in Datasets, columns \in ColumnsParams :
          LET req == [NoRequest EXCEPT !.handler = "analyze", !.data = data,
                                       !.columns = columns]
          IN  last' = Completed(nreq + 1, req, AnalyzeBody(req), {})
    /\ nreq' = nreq + 1
    /\ UNCHANGED <<figs, pending>>

\* the response (JSONResponse, or the HTTPException's 400) goes out to the client
SendResponse ==
    /\ last # Idle
    /\ last' = Idle
    /\ UNCHANGED <<figs, pending, nreq>>

Next ==
    \/ SendResponse
    \/ ReadCsvAwait
    \/ ReadCsvResume
    \/ DescribeRequest
    \/ PlotRequest
    \/ AnalyzeRequest

Spec == Init /\ [][Next]_vars

(* ---------------------------------------------------------------- claims *)
Produced(handler) == last # Idle /\ last.req.handler = handler

\* every column of the request's data has the same length
Rectangular(data) == \A c1, c2 \in DOMAIN data : data[c1].len = data[c2].len

NumericNames(data) == {c \in DOMAIN data : data[c].dtype \in {"int64", "float64"}}

PlottedArtists == last.resp.content.plot.of.artists

\* C1: every figure a /plot request creates is released by the time its response
\* is produced, whatever the outcome: the number of open figures after the
\* request equals the number before it.
C1_FiguresReleased ==
    [][(last = Idle /\ last' # Idle /\ last'.req.handler = "plot")
          => Len(figs') = Len(figs)]_vars

\* C2: a handler invocation ends in a success response or in a 400 whose detail
\* is the textual message of the exception its body raised, never in another
\* status.
C2_SuccessOr400 ==
    last # Idle =>
        /\ last.resp.status_code \in {200, 400}
        /\ last.exc = NoException => last.resp.status_code = 200
        /\ last.exc # NoException =>
              /\ last.resp.status_code = 400
              /\ last.resp.detail = Str(last.exc)
              /\ last.resp.content = NoValue

C2_Witness ==
    /\ Produced("analyze")
    /\ last.exc.type = "KeyError"
    /\ last.resp.status_code = 400

ScatterMissing == Produced("plot") /\ last.req.kind = "scatter"
                    /\ (last.req.x = None \/ last.req.y = None)

\* C3 as stated: a scatter request with x or y missing returns 400 with a detail
\* mentioning "x and y", for every dataset, and never a plot.
C3_ScatterMissingMentionsXY ==
    ScatterMissing =>
        /\ last.resp.status_code = 400
        /\ Mentions(last.resp.detail, "x and y")
        /\ last.resp.content = NoValue

\* C3 as amended: a scatter request with x or y missing returns 400 and never a
\* plot; the detail mentions "x and y" when the data's columns have equal
\* lengths (otherwise the detail is the table constructor's message).
C3_ScatterMissingIs400 ==
    ScatterMissing =>
        /\ last.resp.status_code = 400
        /\ last.resp.content = NoValue
        /\ Rectangular(last.req.data) => Mentions(last.resp.detail, "x and y")

C3_Witness ==
    /\ ScatterMissing
    /\ last.req.x # None
    /\ last.req.data # NoData
    /\ Rectangular(last.req.data)
    /\ Mentions(last.resp.detail, "x and y")

UnsupportedKind == Produced("plot")
                     /\ last.req.kind \notin {"line", "scatter", "histogram", "heatmap"}

\* C4 as stated: a request with an unsupported kind returns 400 with a detail
\* naming that kind, for every dataset, and never a plot.
C4_UnsupportedNamesKind ==
    UnsupportedKind =>
        /\ last.resp.status_code = 400
        /\ Mentions(last.resp.detail, last.req.kind)
        /\ last.resp.content = NoValue

\* C4 as amended: a request with an unsupported kind returns 400 and never a
\* plot; the detail names the kind when the data's columns have equal lengths.
C4_UnsupportedIs400 ==
    UnsupportedKind =>
        /\ last.resp.status_code = 400
        /\ last.resp.content = NoValue
        /\ Rectangular(last.req.data) => Mentions(last.resp.detail, last.req.kind)

C4_Witness ==
    /\ UnsupportedKind
    /\ last.req.kind = "pie"
    /\ last.req.x # None
    /\ DOMAIN last.req.data = ColNames
    /\ Mentions(last.resp.detail, "pie")

\* C5: a histogram request with x missing returns 400 whether or not y is
\* supplied, and a histogram request's response and effect on the open figures
\* are the same for every value of y.
C5_HistogramNeedsXOnly ==
    [][(last = Idle /\ last' # Idle /\ last'.req.handler = "plot"
          /\ last'.req.kind = "histogram")
        => /\ last'.req.x = None => last'.resp.status_code = 400
           /\ \A yy \in Selectors :
                 LET other == PlotBody(figs, last'.rid, [last'.req EXCEPT !.y = yy])
                 IN  /\ Handle(other.res) = last'.resp
                     /\ other.figs = figs']_vars

C5_Witness ==
    /\ Produced("plot")
    /\ last.req.kind = "histogram"
    /\ last.req.x = None
    /\ last.req.y # None
    /\ Rectangular(last.req.data)
    /\ last.resp.status_code = 400

SubsetAnalyzed ==
    /\ Produced("analyze")
    /\ last.req.columns.given
    /\ last.req.columns.list # <<>>
    /\ Range(last.req.columns.list) \subseteq DOMAIN last.req.data
    /\ last.resp.status_code = 200

\* C6 as stated: with a non-empty columns subset, the keys of the returned
\* description and of the returned info.dtypes are both exactly that subset.
C6_BothExactlySubset ==
    SubsetAnalyzed =>
        /\ last.resp.content.description.keys = Range(last.req.columns.list)
        /\ DOMAIN last.resp.content.info.dtypes = Range(last.req.columns.list)

\* C6 as amended: with a non-empty columns subset, the keys of the returned
\* info.dtypes are exactly that subset, and the keys of the returned description
\* are the numeric columns of the subset, or the whole subset when it has no
\* numeric column.
C6_DtypesExactlyDescriptionNumeric ==
    SubsetAnalyzed =>
        LET subset == Range(last.req.columns.list)
            numeric == subset \cap NumericNames(last.req.data)
        IN  /\ DOMAIN last.resp.content.info.dtypes = subset
            /\ last.resp.content.description.keys
                 = IF numeric # {} THEN numeric ELSE subset

C6_Witness ==
    /\ SubsetAnalyzed
    /\ Range(last.req.columns.list) # DOMAIN last.req.data
    /\ last.resp.content.description.keys = Range(last.req.columns.list)

\* C7: a heatmap request renders the correlation matrix of the numeric columns
\* only (a non-numeric column is left out, it does not fail the request), the
\* same for every x and y.
C7_HeatmapOverNumericColumns ==
    (/\ Produced("plot")
     /\ last.req.kind = "heatmap"
     /\ Rectangular(last.req.data)
     /\ NumericNames(last.req.data) # {})
    => /\ last.resp.status_code = 200
       /\ PlottedArtists
            = {Artist("sns.heatmap", None, None, NumericNames(last.req.data))}

LinePlotted == Produced("plot") /\ last.req.kind = "line"
                 /\ last.resp.status_code = 200

\* the call df.plot(kind="line"), which draws every numeric column
WholeTable == {Artist("DataFrame.plot", None, None, NumericNames(last.req.data))}

\* the call df.plot(kind="line", x=x, y=y)
YAgainstX == {Artist("DataFrame.plot", last.req.x, last.req.y, {last.req.y})}

\* C8 as stated: a line request plots all columns exactly when x and y are
\* both omitted, and plots y against x as soon as a selector is supplied.
C8_SelectorNeverIgnored ==
    LinePlotted =>
        IF last.req.x = None /\ last.req.y = None
        THEN PlottedArtists = WholeTable
        ELSE PlottedArtists = YAgainstX

\* C8 as amended: a line request plots all columns exactly when x or y (or
\* both) is omitted, and plots y against x exactly when both are supplied; a
\* selector supplied alone is ignored.
C8_BothSelectorsOrNone ==
    LinePlotted =>
        IF last.req.x = None \/ last.req.y = None
        THEN PlottedArtists = WholeTable
        ELSE PlottedArtists = YAgainstX /\ PlottedArtists # WholeTable

C8_Witness ==
    /\ LinePlotted
    /\ last.req.x # None
    /\ last.req.y = None
    /\ PlottedArtists = WholeTable

\* C9: whatever requests are in flight or came before, a /plot request draws on,
\* saves and closes only figures it created itself, and its response is the one
\* it gets when no other request has touched pyplot.
C9_NoCrossRequestInterference ==
    Produced("plot") =>
        /\ last.touched \subseteq {last.rid}
        /\ last.resp = Handle(PlotBody(<<>>, last.rid, last.req).res)
        /\ \A i \in 1..Len(figs) : figs[i].owner # last.rid => figs[i].artists = {}

C9_Witness ==
    /\ Produced("plot")
    /\ last.resp.status_code = 200
    /\ pending # {}
    /\ \E p \in pending : p.rid < last.rid
    /\ \E i \in 1..Len(figs) : figs[i].owner # last.rid

\* C10: an analyze request with columns=[] gets the response of the same request
\* with columns omitted, and that response covers every column of the data.
C10_EmptyListIsOmitted ==
    (Produced("analyze") /\ last.req.columns.given /\ last.req.columns.list = <<>>)
    => /\ last.resp = Handle(AnalyzeBody([last.req EXCEPT !.columns = NoColumns]))
       /\ last.resp.status_code = 200 =>
             /\ DOMAIN last.resp.content.info.dtypes = DOMAIN last.req.data
             /\ DOMAIN last.resp.content.info.non_null_counts = DOMAIN last.req.data
             /\ last.resp.content.correlation.keys = NumericNames(last.req.data)

C10_Witness ==
    /\ Produced("analyze")
    /\ last.req.columns.given
    /\ last.req.columns.list = <<>>
    /\ last.resp.status_code = 200
    /\ DOMAIN last.req.data = ColNames
====
